---------------------------- MODULE Spec2Model ----------------------------
(***************************************************************************)
(* The bee catching game of app/bee/main.go as a state machine.            *)
(*                                                                         *)
(* One step of the machine is one frame: the wall clock advances by the    *)
(* frame's duration and the engine calls Game.Update once.  The inputs of  *)
(* a frame are the press-edge of the left mouse button, the cursor         *)
(* position, and the values the frame draws from math/rand.                *)
(*                                                                         *)
(* Positions and speeds are float64 in the source.  Here they are          *)
(* integers counting 1/SubPixel of a pixel; on such values (dyadic, far    *)
(* below 2^53) float64 addition, negation and comparison are exact, so     *)
(* the integer arithmetic below is the arithmetic the program performs.    *)
(* The wall clock counts 1/ClockHz of a second.                            *)
(***************************************************************************)
EXTENDS Integers, Sequences, FiniteSets, TLC

\* ---------------------------------------------------------------- constants
\* main.go:22-24
screenWidth == 800
screenHeight == 600
gameTime == 60
\* main.go:208  len(g.bees) < 10
MaxBees == 10
\* mutant of LightningFrames: the effect is armed for one frame more
LightningFramesLong == 30 + 1
\* main.go:255  g.lightningTimer = 30
LightningFrames == 30
\* mutants of MaxHornets: the game ends one hornet late, one hornet early
MaxHornetsLate == 3 + 1
MaxHornetsEarly == 3 - 1
\* main.go:256  g.hornetsClicked >= 3
MaxHornets == 3
\* main.go:154-157  speedBase
NormalSpeedBase == 2
HighSpeedBase == 5
\* main.go:262-264  points of a bee
HighSpeedPoints == 3

\* ------------------------------------------------------------------- bounds
\* the longest straight flight the observer follows, in frames
MaxRun == 4
\* resolution of positions and speeds: units per pixel
SubPixel == 2
\* resolution of the wall clock: units per second
ClockHz == 2
\* sizes of the decoded images image/bee.png and image/hornet.png (assets)
BeeImageW == 64
BeeImageH == 48
HornetImageW == 80
HornetImageH == 60

VARIABLES
    bees,             \* g.bees: sequence of Bee records, in insertion order
    score,            \* g.score
    hornetsClicked,   \* g.hornetsClicked
    gameOver,         \* g.gameOver
    gameStarted,      \* g.gameStarted
    startTime,        \* g.startTime, in clock units
    remainingTime,    \* g.remainingTime, in seconds
    lightningEffect,  \* g.lightningEffect
    lightningTimer,   \* g.lightningTimer
    now,              \* the wall clock read by time.Now / time.Since
    last,             \* what the last call of Update did (history)
    obs,              \* the bee an observer follows while it flies straight
    frames            \* the number of counted frames so far

vars == <<bees, score, hornetsClicked, gameOver, gameStarted, startTime,
          remainingTime, lightningEffect, lightningTimer, now, last, obs, frames>>

\* ------------------------------------------------------------------ helpers
\* the record "no bee"
NoBee == [none |-> TRUE]

\* the phase of the game, from the two flags (Draw, main.go:289-317)
Phase == IF ~gameStarted THEN "NotStarted"
         ELSE IF gameOver THEN "Over" ELSE "Playing"

\* img.Size() / 2 of the image the kind is drawn with (main.go:143-152)
HitboxW(isHornets) == (IF isHornets THEN HornetImageW ELSE BeeImageW) \div 2
HitboxH(isHornets) == (IF isHornets THEN HornetImageH ELSE BeeImageH) \div 2

\* speedBase (main.go:154-157)
SpeedBase(isHighSpeed) == IF isHighSpeed THEN HighSpeedBase ELSE NormalSpeedBase

\* The draws of one call of addBee: the two kind flags, rand.Intn's pixel
\* position, and the two speeds (rand.Float64()*2 - 1) * speedBase, which lie
\* in [-speedBase, speedBase).
ValidDraw(d) ==
    /\ d.isHornets \in BOOLEAN /\ d.isHighSpeed \in BOOLEAN
    /\ d.px \in 0 .. (screenWidth - HitboxW(d.isHornets) - 1)
    /\ d.py \in 0 .. (screenHeight - HitboxH(d.isHornets) - 1)
    /\ -SpeedBase(d.isHighSpeed) * SubPixel <= d.speedX
    /\ d.speedX < SpeedBase(d.isHighSpeed) * SubPixel
    /\ -SpeedBase(d.isHighSpeed) * SubPixel <= d.speedY
    /\ d.speedY < SpeedBase(d.isHighSpeed) * SubPixel

\* the Bee that addBee builds from its draws (main.go:159-169)
NewBee(d) ==
    [x |-> d.px * SubPixel, y |-> d.py * SubPixel,
     speedX |-> d.speedX, speedY |-> d.speedY,
     width |-> HitboxW(d.isHornets), height |-> HitboxH(d.isHornets),
     isHornets |-> d.isHornets, isHighSpeed |-> d.isHighSpeed,
     visible |-> TRUE]

\* g.addBee (main.go:139-172)
addBee(bs, d) == Append(bs, NewBee(d))

\* mutant of SpawnStep: the cap is tested with <= for <
SpawnStepOffByOne(bs, in) ==
    IF in.spawn /\ Len(bs) <= MaxBees THEN addBee(bs, in.draw) ELSE bs

\* "Add new bees randomly" (main.go:207-210): in.spawn is rand.Float64() < 0.05
SpawnStep(bs, in) ==
    IF in.spawn /\ Len(bs) < MaxBees THEN addBee(bs, in.draw) ELSE bs

\* mutant of RemainingAt: the time is measured from the frame before
RemainingAtFromNow(t) == gameTime - ((t - now) \div ClockHz)

\* gameTime - int(elapsed.Seconds()) at clock t (main.go:199-200)
RemainingAt(t) == gameTime - ((t - startTime) \div ClockHz)

\* mutant of TimeIsUp: the time is tested with < for <=
TimeIsUpStrict(t) == RemainingAt(t) < 0

\* g.remainingTime <= 0 at clock t (main.go:201)
TimeIsUp(t) == RemainingAt(t) <= 0

\* mutant of Bounce: the speed is turned round at the upper bound only
BounceUpperOnly(p, speed, size, extent) ==
    IF p >= (size - extent) * SubPixel THEN -speed ELSE speed

\* one axis of "Bounce off walls" (main.go:230-235): the speed after the
\* move to position p, where the upper bound is size - extent pixels
Bounce(p, speed, size, extent) ==
    IF p <= 0 \/ p >= (size - extent) * SubPixel THEN -speed ELSE speed

\* mutant of MoveBee: y advances by speedX
MoveBeeTypo(b) ==
    IF ~b.visible THEN b
    ELSE LET nx == b.x + b.speedX
             ny == b.y + b.speedX
         IN  [b EXCEPT !.x = nx, !.y = ny,
                       !.speedX = Bounce(nx, b.speedX, screenWidth, b.width),
                       !.speedY = Bounce(ny, b.speedY, screenHeight, b.height)]

\* one iteration of "Update bee positions" (main.go:221-236)
MoveBee(b) ==
    IF ~b.visible THEN b
    ELSE LET nx == b.x + b.speedX
             ny == b.y + b.speedY
         IN  [b EXCEPT !.x = nx, !.y = ny,
                       !.speedX = Bounce(nx, b.speedX, screenWidth, b.width),
                       !.speedY = Bounce(ny, b.speedY, screenHeight, b.height)]

\* "Update bee positions" (main.go:220-236)
MoveBees(bs) == [i \in 1 .. Len(bs) |-> MoveBee(bs[i])]

\* mutant of Contains: the box is tested with > and < for >= and <=
ContainsStrict(b, cx, cy) ==
    /\ cx * SubPixel > b.x /\ cx * SubPixel < b.x + b.width * SubPixel
    /\ cy * SubPixel > b.y /\ cy * SubPixel < b.y + b.height * SubPixel

\* "Check if click is within bee bounds" (main.go:247-248)
Contains(b, cx, cy) ==
    /\ cx * SubPixel >= b.x /\ cx * SubPixel <= b.x + b.width * SubPixel
    /\ cy * SubPixel >= b.y /\ cy * SubPixel <= b.y + b.height * SubPixel

\* mutant of HitIndex: the click loop runs on to the last bee that holds the
\* point
HitIndexLast(bs, cx, cy) ==
    LET hits == {i \in 1 .. Len(bs) : bs[i].visible /\ Contains(bs[i], cx, cy)}
    IN  IF hits = {} THEN 0 ELSE CHOOSE i \in hits : \A j \in hits : i >= j

\* the index the click loop breaks at, 0 when it runs to its end
\* (main.go:241-269)
HitIndex(bs, cx, cy) ==
    LET hits == {i \in 1 .. Len(bs) : bs[i].visible /\ Contains(bs[i], cx, cy)}
    IN  IF hits = {} THEN 0 ELSE CHOOSE i \in hits : \A j \in hits : i <= j

\* mutant of Points: a high-speed bee is worth no more than another
PointsFlat(b) == 1

\* the points of a clicked bee (main.go:260-265)
Points(b) == IF b.isHighSpeed THEN HighSpeedPoints ELSE 1

\* mutant of RemoveInvisible: every bee is appended to the new list
RemoveInvisibleNone(bs) == SelectSeq(bs, LAMBDA b : TRUE)

\* "Remove invisible bees" (main.go:272-279)
RemoveInvisible(bs) == SelectSeq(bs, LAMBDA b : b.visible)

\* mutant of EffectAfter: the effect ends when the timer is below 0
EffectAfterLate == lightningEffect /\ lightningTimer - 1 >= 0

\* "Update lightning effect timer" (main.go:212-218)
TimerAfter == IF lightningEffect THEN lightningTimer - 1 ELSE lightningTimer
EffectAfter == lightningEffect /\ lightningTimer - 1 > 0

\* ----------------------------------------------------------------- history
\* the history of a call that ran no spawn and no hit test
Did(op, in) == [op |-> op, press |-> in.press, cx |-> in.cx, cy |-> in.cy,
                rolled |-> FALSE, spawned |-> FALSE, at |-> 0, hit |-> NoBee,
                born |-> NoBee,
                since |-> IF op = "restart" THEN -1 ELSE last.since]

\* The number of frames of a running game since the last hit of a hornet in
\* this game: 0 at the end of the frame of the hit, -1 as long as no hornet
\* was hit, counted no further than LightningFrames.
Since(hornet) ==
    IF hornet THEN 0
    ELSE IF last.since < 0 THEN -1
    ELSE IF last.since >= LightningFrames THEN LightningFrames
    ELSE last.since + 1

\* nobody is observed
NoObs == [idx |-> 0]

\* a bee stands at or beyond one of the four bounds of "Bounce off walls"
AtBound(b) ==
    \/ b.x <= 0 \/ b.x >= (screenWidth - b.width) * SubPixel
    \/ b.y <= 0 \/ b.y >= (screenHeight - b.height) * SubPixel

\* The observer after a frame of a running game that moved the bees to
\* `moved` and hit the bee at index h.  in.watch names the bee to begin
\* with; the observer notes where the bee is and how fast, counts the frames
\* it flies without reaching a bound, follows it when a bee before it leaves
\* the list, and lets go of it when it is hit, reaches a bound or has flown
\* MaxRun frames.
Observe(in, moved, h) ==
    LET i == IF obs = NoObs THEN in.watch ELSE obs.idx
        o == IF obs = NoObs /\ i > 0
             THEN [idx |-> i, x0 |-> bees[i].x, y0 |-> bees[i].y,
                   speedX |-> bees[i].speedX, speedY |-> bees[i].speedY,
                   n |-> 0]
             ELSE obs
    IN  IF i = 0 THEN NoObs
        ELSE IF h = i \/ AtBound(moved[i]) \/ o.n >= MaxRun THEN NoObs
        ELSE [o EXCEPT !.n = @ + 1, !.idx = IF h > 0 /\ h < i THEN i - 1 ELSE i]

\* --------------------------------------------------------------------- Init
\* NewGame (main.go:54-69); the fields it does not name are Go's zero values
Init ==
    /\ bees = << >>
    /\ score = 0
    /\ hornetsClicked = 0
    /\ gameOver = FALSE
    /\ gameStarted = FALSE
    /\ startTime = 0
    /\ remainingTime = gameTime
    /\ lightningEffect = FALSE
    /\ lightningTimer = 0
    /\ now = 0
    /\ last = [op |-> "new", press |-> FALSE, cx |-> 0, cy |-> 0,
               rolled |-> FALSE, spawned |-> FALSE, at |-> 0, hit |-> NoBee,
               born |-> NoBee, since |-> -1]
    /\ obs = NoObs
    /\ frames = 0

\* ------------------------------------------------------------------- Update
\* mutant of UpdateNotStarted: the frame of the first press goes on to spawn
UpdateNotStartedSpawns(in) ==
    /\ ~gameStarted
    /\ now' = now + in.dt
    /\ frames' = frames + in.tick
    /\ IF in.press
       THEN /\ gameStarted' = TRUE
            /\ startTime' = now'
            /\ bees' = SpawnStep(bees, in)
            /\ last' = Did("start", in)
       ELSE /\ UNCHANGED <<gameStarted, startTime, bees>>
            /\ last' = Did("wait", in)
    /\ obs' = NoObs
    /\ UNCHANGED <<score, hornetsClicked, gameOver, remainingTime,
                   lightningEffect, lightningTimer>>

\* Update before the first press (main.go:176-182)
UpdateNotStarted(in) ==
    /\ ~gameStarted
    /\ now' = now + in.dt
    /\ frames' = frames + in.tick
    /\ IF in.press
       THEN /\ gameStarted' = TRUE
            /\ startTime' = now'
            /\ last' = Did("start", in)
       ELSE /\ UNCHANGED <<gameStarted, startTime>>
            /\ last' = Did("wait", in)
    /\ obs' = NoObs
    /\ UNCHANGED <<bees, score, hornetsClicked, gameOver, remainingTime,
                   lightningEffect, lightningTimer>>

\* mutant of UpdateGameOver: the reset leaves g.lightningEffect as it is
UpdateGameOverKeepsEffect(in) ==
    /\ gameStarted /\ gameOver
    /\ now' = now + in.dt
    /\ frames' = frames + in.tick
    /\ IF in.press
       THEN /\ bees' = << >>
            /\ score' = 0
            /\ hornetsClicked' = 0
            /\ gameOver' = FALSE
            /\ startTime' = now'
            /\ remainingTime' = gameTime
            /\ last' = Did("restart", in)
       ELSE /\ UNCHANGED <<bees, score, hornetsClicked, gameOver, startTime,
                           remainingTime>>
            /\ last' = Did("over", in)
    /\ obs' = NoObs
    /\ UNCHANGED <<gameStarted, lightningTimer, lightningEffect>>

\* mutant of UpdateGameOver: the lightning timer runs on while the game is
\* over
UpdateGameOverCountsDown(in) ==
    /\ gameStarted /\ gameOver
    /\ now' = now + in.dt
    /\ frames' = frames + in.tick
    /\ IF in.press
       THEN /\ bees' = << >>
            /\ score' = 0
            /\ hornetsClicked' = 0
            /\ gameOver' = FALSE
            /\ startTime' = now'
            /\ remainingTime' = gameTime
            /\ lightningEffect' = FALSE
            /\ lightningTimer' = lightningTimer
            /\ last' = Did("restart", in)
       ELSE /\ UNCHANGED <<bees, score, hornetsClicked, gameOver, startTime,
                           remainingTime>>
            /\ lightningEffect' = EffectAfter
            /\ lightningTimer' = TimerAfter
            /\ last' = Did("over", in)
    /\ obs' = NoObs
    /\ UNCHANGED gameStarted

\* Update while the game is over (main.go:184-196)
UpdateGameOver(in) ==
    /\ gameStarted /\ gameOver
    /\ now' = now + in.dt
    /\ frames' = frames + in.tick
    /\ IF in.press
       THEN /\ bees' = << >>
            /\ score' = 0
            /\ hornetsClicked' = 0
            /\ gameOver' = FALSE
            /\ startTime' = now'
            /\ remainingTime' = gameTime
            /\ lightningEffect' = FALSE
            /\ last' = Did("restart", in)
       ELSE /\ UNCHANGED <<bees, score, hornetsClicked, gameOver, startTime,
                           remainingTime, lightningEffect>>
            /\ last' = Did("over", in)
    /\ obs' = NoObs
    /\ UNCHANGED <<gameStarted, lightningTimer>>

\* mutant of UpdateTimeUp: g.remainingTime is not set to 0
UpdateTimeUpUnclamped(in) ==
    /\ gameStarted /\ ~gameOver
    /\ now' = now + in.dt
    /\ frames' = frames + in.tick
    /\ TimeIsUp(now')
    /\ gameOver' = TRUE
    /\ remainingTime' = RemainingAt(now')
    /\ last' = Did("timeup", in)
    /\ obs' = NoObs
    /\ UNCHANGED <<bees, score, hornetsClicked, gameStarted, startTime,
                   lightningEffect, lightningTimer>>

\* Update when the time is used up (main.go:198-205)
UpdateTimeUp(in) ==
    /\ gameStarted /\ ~gameOver
    /\ now' = now + in.dt
    /\ frames' = frames + in.tick
    /\ TimeIsUp(now')
    /\ gameOver' = TRUE
    /\ remainingTime' = 0
    /\ last' = Did("timeup", in)
    /\ obs' = NoObs
    /\ UNCHANGED <<bees, score, hornetsClicked, gameStarted, startTime,
                   lightningEffect, lightningTimer>>

\* mutant of UpdatePlaying: the click is tested before the bees are moved
UpdatePlayingHitFirst(in) ==
    /\ gameStarted /\ ~gameOver
    /\ now' = now + in.dt
    /\ frames' = frames + in.tick
    /\ ~TimeIsUp(now')
    /\ remainingTime' = RemainingAt(now')
    /\ LET spawned == SpawnStep(bees, in)
           h == IF in.press THEN HitIndex(spawned, in.cx, in.cy) ELSE 0
           clicked == IF h = 0 THEN spawned
                      ELSE [spawned EXCEPT ![h].visible = FALSE]
           moved == MoveBees(clicked)
           hornet == h > 0 /\ spawned[h].isHornets
       IN  /\ bees' = RemoveInvisible(moved)
           /\ score' = IF h > 0 /\ ~hornet THEN score + Points(spawned[h])
                       ELSE score
           /\ hornetsClicked' = IF hornet THEN hornetsClicked + 1
                                ELSE hornetsClicked
           /\ lightningEffect' = IF hornet THEN TRUE ELSE EffectAfter
           /\ lightningTimer' = IF hornet THEN LightningFrames ELSE TimerAfter
           /\ gameOver' = (hornet /\ hornetsClicked + 1 >= MaxHornets)
           /\ last' = [op |-> "play", press |-> in.press,
                       cx |-> in.cx, cy |-> in.cy,
                       rolled |-> in.spawn,
                       spawned |-> Len(spawned) > Len(bees),
                       at |-> h,
                       hit |-> IF h = 0 THEN NoBee ELSE spawned[h],
                       born |-> IF Len(spawned) > Len(bees)
                                THEN spawned[Len(spawned)] ELSE NoBee,
                       since |-> Since(hornet)]
           /\ obs' = Observe(in, moved, h)
    /\ UNCHANGED <<gameStarted, startTime>>

\* Update of a running game (main.go:198-282)
UpdatePlaying(in) ==
    /\ gameStarted /\ ~gameOver
    /\ now' = now + in.dt
    /\ frames' = frames + in.tick
    /\ ~TimeIsUp(now')
    /\ remainingTime' = RemainingAt(now')
    /\ LET spawned == SpawnStep(bees, in)
           moved == MoveBees(spawned)
           h == IF in.press THEN HitIndex(moved, in.cx, in.cy) ELSE 0
           clicked == IF h = 0 THEN moved
                      ELSE [moved EXCEPT ![h].visible = FALSE]
           hornet == h > 0 /\ moved[h].isHornets
       IN  /\ bees' = RemoveInvisible(clicked)
           /\ score' = IF h > 0 /\ ~hornet THEN score + Points(moved[h])
                       ELSE score
           /\ hornetsClicked' = IF hornet THEN hornetsClicked + 1
                                ELSE hornetsClicked
           /\ lightningEffect' = IF hornet THEN TRUE ELSE EffectAfter
           /\ lightningTimer' = IF hornet THEN LightningFrames ELSE TimerAfter
           /\ gameOver' = (hornet /\ hornetsClicked + 1 >= MaxHornets)
           /\ last' = [op |-> "play", press |-> in.press,
                       cx |-> in.cx, cy |-> in.cy,
                       rolled |-> in.spawn,
                       spawned |-> Len(spawned) > Len(bees),
                       at |-> h,
                       hit |-> IF h = 0 THEN NoBee ELSE moved[h],
                       born |-> IF Len(spawned) > Len(bees)
                                THEN spawned[Len(spawned)] ELSE NoBee,
                       since |-> Since(hornet)]
           /\ obs' = Observe(in, moved, h)
    /\ UNCHANGED <<gameStarted, startTime>>

\* ------------------------------------------------------------ environment
\* the length of a game in clock units
GameUnits == gameTime * ClockHz

\* the draws of a frame that calls addBee for nothing
NoDraw == [isHornets |-> FALSE, isHighSpeed |-> FALSE, px |-> 0, py |-> 0,
           speedX |-> 0, speedY |-> 0]

Draw(isHornets, isHighSpeed, px, py, speedX, speedY) ==
    [isHornets |-> isHornets, isHighSpeed |-> isHighSpeed, px |-> px,
     py |-> py, speedX |-> speedX, speedY |-> speedY]

\* The inputs of the frames explored from the current state: the clock stays
\* within maxClock, a bee is drawn only while fewer than maxLen are alive,
\* and in a running game the button is pressed only while the score is below
\* maxScore.  A
\* frame without a press reads no cursor, a frame without a spawn draws no
\* bee.  With `watching`, the observer may begin to follow any bee when it
\* follows none.  With maxFrames > 0 the frames are counted, and no more
\* than maxFrames of them are explored.
Frames(Dts, Clicks, Draws, maxLen, maxClock, maxScore, watching, maxFrames) ==
    LET presses == {[press |-> FALSE, cx |-> 0, cy |-> 0]} \cup
                   (IF ~(gameStarted /\ ~gameOver) \/ score < maxScore
                    THEN {[press |-> TRUE, cx |-> c[1], cy |-> c[2]] : c \in Clicks}
                    ELSE {})
        spawns == {[spawn |-> FALSE, draw |-> NoDraw]} \cup
                  (IF Len(bees) < maxLen
                   THEN {[spawn |-> TRUE, draw |-> d] : d \in {e \in Draws : ValidDraw(e)}}
                   ELSE {})
        watches == IF watching /\ obs = NoObs /\ gameStarted /\ ~gameOver
                   THEN 0 .. Len(bees) ELSE {0}
    IN  {[dt |-> d, press |-> p.press, cx |-> p.cx, cy |-> p.cy,
          spawn |-> s.spawn, draw |-> s.draw, watch |-> w,
          tick |-> IF maxFrames > 0 THEN 1 ELSE 0] :
            d \in {e \in Dts : now + e <= maxClock /\ (maxFrames > 0 => frames < maxFrames)},
            p \in presses, s \in spawns, w \in watches}

\* ------------------------------------------------ the game's flow (Spec)
\* Frames of any length, from none of the clock's units to more than a whole
\* game; one bee at a time, of any kind, standing still where the first
\* click point is.
FlowBees == 1
FlowScore == 2
FlowDts == {0, GameUnits - 1, GameUnits, GameUnits + ClockHz}
FlowClock == GameUnits + ClockHz
FlowDraws == {Draw(FALSE, FALSE, 100, 100, 0, 0),
              Draw(FALSE, TRUE, 110, 110, 0, 0),
              Draw(TRUE, FALSE, 90, 95, 0, 0)}
FlowClicks == {<<115, 115>>, <<700, 500>>}
FlowFrames ==
    Frames(FlowDts, FlowClicks, FlowDraws, FlowBees, FlowClock, FlowScore, FALSE, 0)

Next ==
    \/ ~gameStarted /\ \E in \in FlowFrames : UpdateNotStarted(in)
    \/ gameStarted /\ gameOver /\ \E in \in FlowFrames : UpdateGameOver(in)
    \/ gameStarted /\ ~gameOver /\ \E in \in FlowFrames : UpdateTimeUp(in)
    \/ gameStarted /\ ~gameOver /\ \E in \in FlowFrames : UpdatePlaying(in)

Spec == Init /\ [][Next]_vars

\* ------------------------------------------- a crowd of bees (SpecCrowd)
\* Bees that stand still on top of each other, spawned up to the cap; frames
\* of no length, and one as long as a game.
CrowdScore == 1
CrowdDts == {0, GameUnits}
CrowdClock == GameUnits
CrowdDraws == {Draw(FALSE, FALSE, 100, 100, 0, 0)}
CrowdClicks == {<<115, 115>>}
CrowdFrames ==
    Frames(CrowdDts, CrowdClicks, CrowdDraws, MaxBees + 1, CrowdClock, CrowdScore, FALSE, 0)

NextCrowd ==
    \/ ~gameStarted /\ \E in \in CrowdFrames : UpdateNotStarted(in)
    \/ gameStarted /\ gameOver /\ \E in \in CrowdFrames : UpdateGameOver(in)
    \/ gameStarted /\ ~gameOver /\ \E in \in CrowdFrames : UpdateTimeUp(in)
    \/ gameStarted /\ ~gameOver /\ \E in \in CrowdFrames : UpdatePlaying(in)

SpecCrowd == Init /\ [][NextCrowd]_vars

\* ------------------------------------------- bees in flight (SpecMotion)
\* Bees that fly near the walls, one of them from x = 0, for MotionTicks
\* frames; a frame takes no time, or as long as a game.
MotionTicks == 6
MotionBees == 1
MotionScore == 1
MotionDts == {0, GameUnits}
MotionClock == GameUnits
MotionDraws == {Draw(FALSE, FALSE, 0, 100, -3, 0),
                Draw(FALSE, FALSE, 1, 574, -3, 2),
                Draw(FALSE, TRUE, 766, 300, 9, -7),
                Draw(TRUE, FALSE, 400, 300, 2, 3)}
MotionClicks == {<<0, 100>>, <<1, 576>>, <<401, 303>>}
MotionFrames ==
    Frames(MotionDts, MotionClicks, MotionDraws, MotionBees, MotionClock, MotionScore, TRUE, MotionTicks)

NextMotion ==
    \/ ~gameStarted /\ \E in \in MotionFrames : UpdateNotStarted(in)
    \/ gameStarted /\ gameOver /\ \E in \in MotionFrames : UpdateGameOver(in)
    \/ gameStarted /\ ~gameOver /\ \E in \in MotionFrames : UpdateTimeUp(in)
    \/ gameStarted /\ ~gameOver /\ \E in \in MotionFrames : UpdatePlaying(in)

SpecMotion == Init /\ [][NextMotion]_vars

\* --------------------------------------- bees on top of others (SpecStack)
\* Up to StackBees bees of the three kinds standing still with their boxes
\* over one another: the first click point is in all three boxes, the second
\* in the hornet's only, the third in the high-speed bee's only, the fourth
\* in none.  The frames are counted.
StackBees == 3
StackScore == 2
StackTicks == 5
StackDts == {0, GameUnits}
StackClock == GameUnits
StackDraws == {Draw(FALSE, FALSE, 100, 100, 0, 0),
               Draw(FALSE, TRUE, 110, 110, 0, 0),
               Draw(TRUE, FALSE, 90, 95, 0, 0)}
StackClicks == {<<115, 115>>, <<95, 100>>, <<140, 130>>, <<700, 500>>}
StackFrames ==
    Frames(StackDts, StackClicks, StackDraws, StackBees, StackClock, StackScore, FALSE, StackTicks)

NextStack ==
    \/ ~gameStarted /\ \E in \in StackFrames : UpdateNotStarted(in)
    \/ gameStarted /\ gameOver /\ \E in \in StackFrames : UpdateGameOver(in)
    \/ gameStarted /\ ~gameOver /\ \E in \in StackFrames : UpdateTimeUp(in)
    \/ gameStarted /\ ~gameOver /\ \E in \in StackFrames : UpdatePlaying(in)

SpecStack == Init /\ [][NextStack]_vars

\* ------------------------------------------ the game's end (SpecLive)
\* ebiten.RunGame calls Update frame after frame while the wall clock goes
\* on: of the frames of a running game, those on which the clock has
\* advanced are taken again and again (weak fairness).  Frames are a
\* third of a game long, a whole game long, or of no length; a game is
\* begun or begun again only while one more whole game fits under the bound
\* of the clock, so that the bound never stops the clock of a running game.
LiveBees == 1
LiveScore == 1
LiveGames == 1
LiveStep == GameUnits \div 3
LiveDts == {0, LiveStep, GameUnits}
LiveClock == LiveGames * (GameUnits + LiveStep)
LiveDraws == {Draw(FALSE, FALSE, 100, 100, 0, 0),
              Draw(TRUE, FALSE, 90, 95, 0, 0)}
LiveClicks == {<<115, 115>>}
LiveFrames ==
    {in \in Frames(LiveDts, LiveClicks, LiveDraws, LiveBees, LiveClock, LiveScore, FALSE, 0) :
        in.press /\ ~(gameStarted /\ ~gameOver) =>
           now + in.dt + GameUnits + LiveStep <= LiveClock}

NextLive ==
    \/ ~gameStarted /\ \E in \in LiveFrames : UpdateNotStarted(in)
    \/ gameStarted /\ gameOver /\ \E in \in LiveFrames : UpdateGameOver(in)
    \/ gameStarted /\ ~gameOver /\ \E in \in LiveFrames : UpdateTimeUp(in)
    \/ gameStarted /\ ~gameOver /\ \E in \in LiveFrames : UpdatePlaying(in)

\* a frame of a running game on which the clock has advanced
ClockFrame ==
    /\ gameStarted /\ ~gameOver
    /\ \E in \in LiveFrames :
          in.dt > 0 /\ (UpdateTimeUp(in) \/ UpdatePlaying(in))

SpecLive == Init /\ [][NextLive]_vars /\ WF_vars(ClockFrame)

\* ================================================================== claims

\* C1: the penalty counter hornetsClicked is always in 0..3, and whenever it
\* is 3 the game is over; from one frame to the next of a game that stays
\* in the Playing phase it never decreases.
C1_PenaltyCounter ==
    /\ [](hornetsClicked \in 0 .. 3 /\ (hornetsClicked = 3 => gameStarted /\ gameOver))
    /\ [][(Phase = "Playing" /\ Phase' = "Playing")
             => hornetsClicked' >= hornetsClicked]_vars

\* the third hornet was clicked in the last frame
C1_Witness ==
    /\ hornetsClicked = 3 /\ gameOver
    /\ last.op = "play" /\ last.hit # NoBee /\ last.hit.isHornets

\* C2: remainingTime is always in 0..60, and in a started game it is 0 only
\* when the game is over.
C2_RemainingTime ==
    /\ remainingTime \in 0 .. 60
    /\ (gameStarted /\ remainingTime = 0) => gameOver

\* the time ran out in a frame that came more than 60 s after the start
C2_Witness ==
    /\ last.op = "timeup" /\ remainingTime = 0 /\ gameOver
    /\ now - startTime >= (gameTime + 1) * ClockHz

\* C3: there are never more than 10 bees, and a frame adds at most one bee
\* and none to 10 bees.
C3_EntityCap ==
    /\ [](Len(bees) <= 10)
    /\ [][/\ Len(bees') <= Len(bees) + 1
          /\ Len(bees) = 10 => Len(bees') <= 10]_vars

\* a frame rolled a spawn with 10 bees alive, and no bee was added
C3_Witness ==
    /\ Len(bees) = 10
    /\ last.op = "play" /\ last.rolled /\ ~last.spawned /\ last.hit = NoBee

\* the points the claims give for the bee a frame hit
Gain(hit) ==
    IF hit = NoBee THEN 0
    ELSE IF hit.isHornets THEN 0
    ELSE IF hit.isHighSpeed THEN 3 ELSE 1

\* C4: a frame of the Playing phase changes the score by +1 when the press
\* hits a normal bee, by +3 when it hits a high-speed bee, and by 0 in every
\* other case (a hornet is hit, nothing is hit, no press, time is up); the
\* score is never negative.
C4_ScoreChange ==
    /\ [](score >= 0)
    /\ [][Phase = "Playing" => score' - score = Gain(last'.hit)]_vars

\* a high-speed bee was hit after a normal one
C4_Witness ==
    /\ last.op = "play" /\ last.press
    /\ last.hit # NoBee /\ ~last.hit.isHornets /\ last.hit.isHighSpeed
    /\ score = 4

\* C5: a frame with a press-edge in the Over phase leaves the game Playing
\* with score 0, penalty counter 0, no bees, remainingTime 60 and the effect
\* flag off.
C5_Reset ==
    [][(Phase = "Over" /\ last'.press)
          => /\ Phase' = "Playing"
             /\ score' = 0
             /\ hornetsClicked' = 0
             /\ bees' = << >>
             /\ remainingTime' = 60
             /\ lightningEffect' = FALSE]_vars

\* a restart of a game that a third hornet had ended in the frame it was
\* clicked: the effect was on, with all of its 30 frames left
C5_Witness ==
    /\ last.op = "restart" /\ last.press
    /\ lightningTimer = 30 /\ ~lightningEffect
    /\ Phase = "Playing"

\* C6: the phase changes only from NotStarted to Playing in a frame with a
\* press-edge, from Playing to Over in a frame that comes 60 s or more after
\* the start or in which the penalty counter reaches 3, and from Over to
\* Playing in a frame with a press-edge.
C6_PhaseTransitions ==
    [][Phase' # Phase
          => \/ Phase = "NotStarted" /\ Phase' = "Playing" /\ last'.press
             \/ /\ Phase = "Playing" /\ Phase' = "Over"
                /\ \/ now' - startTime >= 60 * ClockHz
                   \/ hornetsClicked < 3 /\ hornetsClicked' = 3
             \/ Phase = "Over" /\ Phase' = "Playing" /\ last'.press]_vars

\* a game that was started, ran out of time, and was started again
C6_Witness ==
    /\ last.op = "restart" /\ Phase = "Playing"
    /\ lightningTimer = 0 /\ startTime >= gameTime * ClockHz

\* C7: a frame of the Playing phase that comes 60 s or more after the start
\* ends the game with remainingTime 0 and leaves the bees, the score, the
\* penalty counter and the effect flag and timer as they were, press or no
\* press.
C7_TimeUp ==
    [][(Phase = "Playing" /\ now' - startTime >= 60 * ClockHz)
          => /\ Phase' = "Over"
             /\ remainingTime' = 0
             /\ UNCHANGED <<bees, score, hornetsClicked, lightningEffect,
                            lightningTimer>>]_vars

\* the time ran out exactly 60 s after the start, in a frame with a press,
\* with a bee alive, two hornets clicked and the effect running
C7_Witness ==
    /\ last.op = "timeup" /\ last.press
    /\ now - startTime = gameTime * ClockHz
    /\ Len(bees) > 0 /\ hornetsClicked = 2
    /\ lightningEffect /\ lightningTimer \in 1 .. 29

\* a move from p to q crosses a bound of the axis: the bee was on the
\* screen's side of the bound, or on it, and is on it or beyond it
Crossed(p, q, size, extent) ==
    \/ p >= 0 /\ q <= 0
    \/ p <= (size - extent) * SubPixel /\ q >= (size - extent) * SubPixel

\* the index after a frame of the bee that was at index i before it
IndexAfter(i, at) == IF at > 0 /\ at < i THEN i - 1 ELSE i

\* C8: in a frame of a running game, for every bee that stays in the list
\* and for each axis, the speed is negated if the frame's move crossed a
\* bound of the axis, and is unchanged if it crossed none; so a bee that
\* was reflected is not reflected again by a move that crosses no bound.
C8_FlipOncePerCrossing ==
    [][last'.op = "play"
          => \A i \in 1 .. Len(bees) :
               last'.at # i
               => LET b == bees[i]
                      c == bees'[IndexAfter(i, last'.at)]
                  IN  /\ c.speedX = IF Crossed(b.x, c.x, screenWidth, b.width)
                                    THEN -b.speedX ELSE b.speedX
                      /\ c.speedY = IF Crossed(b.y, c.y, screenHeight, b.height)
                                    THEN -b.speedY ELSE b.speedY]_vars

\* C9: a bee that the observer has followed for n frames, in none of which
\* it reached a bound, is at the position it started from plus n times its
\* speed, on both axes, and its speed is the one it started with.
C9_StraightFlight ==
    obs # NoObs
    => /\ obs.idx \in 1 .. Len(bees)
       /\ bees[obs.idx].x = obs.x0 + obs.n * obs.speedX
       /\ bees[obs.idx].y = obs.y0 + obs.n * obs.speedY
       /\ bees[obs.idx].speedX = obs.speedX
       /\ bees[obs.idx].speedY = obs.speedY

\* a bee that moves on both axes was followed for three frames or more
C9_Witness ==
    /\ obs # NoObs /\ obs.n >= 3
    /\ obs.speedX # 0 /\ obs.speedY # 0

\* the frame is one of a running game with time left, a single normal bee
\* is alive before it, and the press is at the place of that bee
ClickOnTheBee ==
    /\ Phase = "Playing" /\ last'.op = "play"
    /\ Len(bees) = 1 /\ ~bees[1].isHornets /\ ~bees[1].isHighSpeed
    /\ last'.press
    /\ last'.cx * SubPixel = bees[1].x /\ last'.cy * SubPixel = bees[1].y

\* the score is one more and the bee that was alive is gone
BeeCaught ==
    /\ score' = score + 1
    /\ Len(bees') = IF last'.spawned THEN 1 ELSE 0

\* C10 as claimed: a press at the place (x, y) of a single normal bee scores
\* 1 and removes the bee.
C10_ClickAtPosition == [][ClickOnTheBee => BeeCaught]_vars

\* C10 as amended: a press at the place (x, y) of a single normal bee scores
\* 1 and removes the bee if neither component of the bee's speed is
\* positive or below minus the size of its box.
C10_ClickAtPositionAmended ==
    [][(/\ ClickOnTheBee
        /\ bees[1].speedX <= 0 /\ bees[1].speedX >= -bees[1].width * SubPixel
        /\ bees[1].speedY <= 0 /\ bees[1].speedY >= -bees[1].height * SubPixel)
          => BeeCaught]_vars

\* a single normal bee that had moved to the left of the press was hit by a
\* press at the place it had before the move
C10_Witness ==
    /\ last.op = "play" /\ last.press /\ ~last.spawned /\ bees = << >>
    /\ last.hit # NoBee /\ ~last.hit.isHornets /\ ~last.hit.isHighSpeed
    /\ score = 1
    /\ last.hit.x < last.cx * SubPixel
    /\ last.hit.x - last.cx * SubPixel \in {last.hit.speedX, -last.hit.speedX}
    /\ last.hit.y = last.cy * SubPixel


\* C12: a hit on a hornet sets the lightning effect with a countdown of 30
\* frames.  As long as the game is not restarted and no other hornet is hit,
\* the effect is on at the end of the frame of the hit and of the next 29
\* frames of the running game, with the timer at 30 less the number of frames
\* since the hit, and it is off at the end of the 30th frame after the hit
\* and from then on; every hit on a hornet, one during the countdown too,
\* sets the timer to 30 again.
C12_EffectCountdown ==
    /\ [](/\ last.since \in 0 .. 29 =>
                lightningEffect /\ lightningTimer = 30 - last.since
          /\ last.since = 30 => ~lightningEffect)
    /\ [][last'.op = "play" /\ last'.at > 0 /\ last'.hit.isHornets =>
            lightningEffect' /\ lightningTimer' = 30 /\ last'.since = 0]_vars

\* the game runs, a second hornet was hit during the countdown of the first
\* or after it, and the effect has ended 30 frames after that hit
C12_Witness ==
    /\ Phase = "Playing"
    /\ hornetsClicked = 2
    /\ last.since = 30
    /\ ~lightningEffect
    /\ lightningTimer = 0

\* C17: before the first press and while the game is over, a frame without a
\* press leaves every field of the game as it was: no bee moves or appears,
\* the score and the hornet counter stay, the remaining time is not computed
\* again and the lightning timer does not count down.
C17_IdleFrame ==
    [][(~gameStarted \/ gameOver) /\ ~last'.press =>
          UNCHANGED <<bees, score, hornetsClicked, gameOver, gameStarted,
                      startTime, remainingTime, lightningEffect,
                      lightningTimer>>]_vars

\* the game was ended by the third hornet before its time was up; a frame
\* without a press has passed after the time limit, the effect is still on
\* and the remaining time still above 0
C17_Witness ==
    /\ last.op = "over"
    /\ ~last.press
    /\ now - startTime >= 60 * ClockHz
    /\ remainingTime > 0
    /\ lightningEffect
    /\ hornetsClicked = 3

\* C18: a press does one thing only.  The press that starts the game spawns,
\* moves and hits nothing; the press that restarts it hits nothing and
\* leaves an empty game; a press in a running game never restarts it, and
\* the one whose hornet is the third ends the game with the score kept.  The
\* game leaves the over phase in no frame without a press.
C18_OnePressOneEffect ==
    [][/\ last'.press /\ ~gameStarted =>
            /\ gameStarted' /\ ~gameOver'
            /\ last'.at = 0 /\ ~last'.spawned
            /\ UNCHANGED <<bees, score, hornetsClicked, remainingTime,
                           lightningEffect, lightningTimer>>
       /\ last'.press /\ gameStarted /\ gameOver =>
            /\ gameStarted' /\ ~gameOver'
            /\ last'.at = 0 /\ ~last'.spawned
            /\ bees' = << >> /\ score' = 0 /\ hornetsClicked' = 0
       /\ last'.press /\ gameStarted /\ ~gameOver =>
            /\ startTime' = startTime
            /\ score' >= score /\ hornetsClicked' >= hornetsClicked
            /\ hornetsClicked' >= 3 =>
                  gameOver' /\ hornetsClicked' = 3 /\ score' = score
       /\ gameStarted /\ gameOver /\ ~gameOver' => last'.press]_vars

\* the press that hit the third hornet ended a game with points in it, and
\* the points are still there
C18_Witness ==
    /\ last.op = "play" /\ last.press /\ last.at > 0
    /\ last.hit.isHornets
    /\ hornetsClicked = 3
    /\ gameOver
    /\ score > 0

\* C19: whenever the lightning effect is on between two frames, the timer is
\* between 1 and 30.
C19_EffectTimerRange == lightningEffect => lightningTimer \in 1 .. 30

\* the effect is on with the timer at its least value, in a game that did
\* not start at clock 0
C19_Witness ==
    /\ lightningEffect
    /\ lightningTimer = 1
    /\ startTime > 0


\* the point (cx, cy), in pixels, lies in the box of w by h pixels whose
\* corner is at (x, y), in units of 1/SubPixel pixel
InBox(x, y, w, h, cx, cy) ==
    /\ x <= cx * SubPixel /\ cx * SubPixel <= x + w * SubPixel
    /\ y <= cy * SubPixel /\ cy * SubPixel <= y + h * SubPixel

\* C15: the steps of a frame run in the order timer, spawn, countdown, move,
\* click, compaction.  When the time is up nothing else runs.  Otherwise the
\* click is tested against the places the bees have after the move of this
\* frame: the bee that is hit is where its speed has taken it, its box there
\* holds the point, and a press on a point in the moved box of a bee hits
\* that bee or one before it.  A bee spawned in the frame is moved in it and
\* can be hit in it; a hornet hit leaves the timer at the full 30, the
\* countdown of the frame having run before; and the bee that is hit is out
\* of the list at the end of the frame.
C15_StepOrder ==
    [][/\ gameStarted /\ ~gameOver /\ now' - startTime >= 60 * ClockHz =>
            UNCHANGED <<bees, score, hornetsClicked, lightningEffect,
                        lightningTimer>>
       /\ last'.op = "play" =>
            LET at == last'.at
                hit == last'.hit
                n == Len(bees)
                new == IF at = n + 1 THEN hit ELSE bees'[Len(bees')]
                grown == IF last'.spawned THEN n + 1 ELSE n
            IN  /\ at > 0 /\ at <= n =>
                      /\ hit.x = bees[at].x + bees[at].speedX
                      /\ hit.y = bees[at].y + bees[at].speedY
                /\ at > 0 =>
                      /\ last'.press
                      /\ InBox(hit.x, hit.y, hit.width, hit.height,
                               last'.cx, last'.cy)
                      /\ Len(bees') = grown - 1
                      /\ hit.isHornets =>
                            lightningEffect' /\ lightningTimer' = 30
                /\ at = 0 => Len(bees') = grown
                /\ last'.press =>
                      \A i \in 1 .. n :
                         InBox(bees[i].x + bees[i].speedX,
                               bees[i].y + bees[i].speedY,
                               bees[i].width, bees[i].height,
                               last'.cx, last'.cy) => at \in 1 .. i
                /\ last'.spawned =>
                      /\ new.x = last'.born.x + last'.born.speedX
                      /\ new.y = last'.born.y + last'.born.speedY
                      /\ last'.press
                         /\ InBox(new.x, new.y, new.width, new.height,
                                  last'.cx, last'.cy) => at > 0]_vars

\* a bee was spawned, moved and hit in one frame
C15_Witness ==
    /\ last.op = "play"
    /\ last.spawned
    /\ last.at = Len(bees) + 1
    /\ last.born.speedX # 0 /\ last.born.speedY # 0
    /\ last.hit.x = last.born.x + last.born.speedX
    /\ last.hit.y = last.born.y + last.born.speedY

\* C16: on each axis a bee is never further below 0 than the size of its
\* speed on that axis and never further above the upper bound, the screen
\* size less the size of the bee, than that; the speed is 5 pixels a frame
\* at most, and so is the overshoot.
C16_Overshoot ==
    \A i \in 1 .. Len(bees) :
       LET b == bees[i]
           ax == IF b.speedX < 0 THEN -b.speedX ELSE b.speedX
           ay == IF b.speedY < 0 THEN -b.speedY ELSE b.speedY
       IN  /\ -ax <= b.x /\ b.x <= (800 - b.width) * SubPixel + ax
           /\ -ay <= b.y /\ b.y <= (600 - b.height) * SubPixel + ay
           /\ ax <= 5 * SubPixel /\ ay <= 5 * SubPixel

\* a bee is beyond the lower bound of x by all of its speed, the most the
\* claim allows
C16_Witness ==
    \E i \in 1 .. Len(bees) :
       /\ bees[i].x < 0
       /\ bees[i].speedX > 0
       /\ bees[i].x = -bees[i].speedX


\* C11: in a frame of the Playing phase with a press, one bee at most is
\* hit: the first in the order of the list whose box holds the click point,
\* and none when no box holds it.  Every other bee, one further on in the
\* list whose box holds the point too, stays in the list with its kind, its
\* tier and its visibility, and the score and the hornet counter change by
\* what the one bee that was hit is worth and by nothing else.
C11_FirstMatch ==
    [][last'.op = "play" /\ last'.press =>
          LET at == last'.at
              hit == last'.hit
              n == Len(bees)
              grown == IF last'.spawned THEN n + 1 ELSE n
              tested == [i \in 1 .. grown |->
                           IF i = at THEN hit ELSE bees'[IndexAfter(i, at)]]
              holds(i) == InBox(tested[i].x, tested[i].y, tested[i].width,
                                tested[i].height, last'.cx, last'.cy)
          IN  /\ at \in 0 .. grown
              /\ Len(bees') = IF at > 0 THEN grown - 1 ELSE grown
              /\ at > 0 => holds(at)
              /\ \A j \in 1 .. grown : holds(j) => at \in 1 .. j
              /\ \A i \in 1 .. n :
                    i # at =>
                       /\ bees'[IndexAfter(i, at)].visible
                       /\ bees'[IndexAfter(i, at)].isHornets = bees[i].isHornets
                       /\ bees'[IndexAfter(i, at)].isHighSpeed = bees[i].isHighSpeed
              /\ score' - score =
                    IF at = 0 \/ hit.isHornets THEN 0
                    ELSE IF hit.isHighSpeed THEN 3 ELSE 1
              /\ hornetsClicked' - hornetsClicked =
                    IF at > 0 /\ hit.isHornets THEN 1 ELSE 0]_vars

\* the press hit the first bee of the list, and a bee of another kind whose
\* box holds the click point too is still there
C11_Witness ==
    /\ last.op = "play" /\ last.press
    /\ last.at = 1
    /\ \E j \in 1 .. Len(bees) :
          /\ InBox(bees[j].x, bees[j].y, bees[j].width, bees[j].height,
                   last.cx, last.cy)
          /\ bees[j].isHornets # last.hit.isHornets
          /\ bees[j].visible

\* C14: at the end of every frame no bee of the list is invisible; a frame
\* of the Playing phase keeps every bee that was not hit, in the order they
\* had, each moved once and otherwise as it was, and takes out none but the
\* bee that was hit in it.
C14_Compaction ==
    /\ [](\A i \in 1 .. Len(bees) : bees[i].visible)
    /\ [][last'.op = "play" =>
            LET at == last'.at
                n == Len(bees)
                grown == IF last'.spawned THEN n + 1 ELSE n
            IN  /\ Len(bees') = IF at > 0 THEN grown - 1 ELSE grown
                /\ \A i \in 1 .. n :
                      i # at =>
                         LET b == bees[i]
                             c == bees'[IndexAfter(i, at)]
                         IN  /\ c.x = b.x + b.speedX /\ c.y = b.y + b.speedY
                             /\ c.width = b.width /\ c.height = b.height
                             /\ c.isHornets = b.isHornets
                             /\ c.isHighSpeed = b.isHighSpeed
                /\ last'.spawned /\ at # grown =>
                      LET c == bees'[Len(bees')]
                      IN  /\ c.isHornets = last'.born.isHornets
                          /\ c.isHighSpeed = last'.born.isHighSpeed]_vars

\* the middle one of three bees was hit, a high-speed bee between a hornet
\* and a normal bee, and the two others are left in their order
C14_Witness ==
    /\ last.op = "play"
    /\ last.at = 2
    /\ last.hit.isHighSpeed
    /\ Len(bees) = 2
    /\ bees[1].isHornets
    /\ ~bees[2].isHornets /\ ~bees[2].isHighSpeed


\* C13: every game ends within its time.  With frames going on and the clock
\* advancing, a game in the Playing phase comes to the Over phase, whatever
\* is pressed; it is over at the end of the first frame on which 60 seconds
\* or more have passed since it was begun or begun again, so that between
\* frames a game in the Playing phase is less than 60 seconds old.
C13_GameEnds ==
    /\ (gameStarted /\ ~gameOver) ~> (gameStarted /\ gameOver)
    /\ [][gameStarted /\ ~gameOver /\ now' - startTime >= 60 * ClockHz =>
            gameOver']_vars
    /\ [](gameStarted /\ ~gameOver => now - startTime < 60 * ClockHz)

\* a game in which a bee and a hornet were hit has ended by its time and
\* not by hornets
C13_Witness ==
    /\ last.op = "timeup"
    /\ gameOver
    /\ hornetsClicked \in 1 .. 2
    /\ score > 0
    /\ now - startTime >= 60 * ClockHz

=============================================================================
